---- MODULE Spec2Model ----
(***************************************************************************)
(* A model of va/dns.go of the boulder validation authority:               *)
(*   getAddrs, availableAddresses and validateDNS01.                       *)
(*                                                                         *)
(* Text is a sequence of bytes; a byte is a one-character string, and the  *)
(* non-ASCII bytes used are written "<C3>", "<A9>", "<EF>", "<BF>", "<BD>". *)
(* "<C3>","<A9>" is the UTF-8 encoding of U+00E9 and "<EF>","<BF>","<BD>"  *)
(* that of U+FFFD, the replacement character.                              *)
(***************************************************************************)
EXTENDS Integers, Sequences, FiniteSets, TLC

\* ------------------------------------------------------------------ bounds
\* Longest list of TXT values a LookupTXT reply of the model carries.
MaxTxts == 3
\* Longest list of addresses a LookupHost reply or a classified list carries.
MaxAddrs == 3
\* The record length above which validateDNS01 truncates (dns.go:84-85).
TruncLimit == 100

\* ------------------------------------------------------------ text helpers
\* unit repeated n times.
Rep(unit, n) ==
    [i \in 1..(n * Len(unit)) |-> unit[((i - 1) % Len(unit)) + 1]]

\* The concatenation of pieces[lo..hi], halving the range.
RECURSIVE Flatten(_, _, _)
Flatten(pieces, lo, hi) ==
    IF lo > hi THEN <<>>
    ELSE IF lo = hi THEN pieces[lo]
    ELSE Flatten(pieces, lo, (lo + hi) \div 2)
         \o Flatten(pieces, ((lo + hi) \div 2) + 1, hi)

StartsWith(s, pre) ==
    Len(pre) <= Len(s) /\ SubSeq(s, 1, Len(pre)) = pre

EndsWith(s, suf) ==
    Len(suf) <= Len(s) /\ SubSeq(s, Len(s) - Len(suf) + 1, Len(s)) = suf

Contains(s, sub) ==
    \E i \in 1..(Len(s) - Len(sub) + 1) : SubSeq(s, i, i + Len(sub) - 1) = sub

SeqsUpTo(S, n) == UNION {[1..k -> S] : k \in 0..n}

\* --------------------------------------------------------------- UTF-8
ContinuationBytes == {"<A9>", "<BF>", "<BD>"}
TwoByteLeads == {"<C3>"}
ThreeByteLeads == {"<EF>"}

\* Whether the byte at i belongs to a well-formed encoding, as Go's decoder
\* (utf8.DecodeRune, ranging over a string) finds them from left to right: a
\* lead byte with its continuation bytes behind it, a continuation byte in
\* the place behind such a lead, or an ASCII byte. A lead byte is never a
\* continuation byte, so this depends on the neighbours of i only.
ValidAt(s, i) ==
    IF s[i] \in TwoByteLeads
    THEN i + 1 <= Len(s) /\ s[i + 1] \in ContinuationBytes
    ELSE IF s[i] \in ThreeByteLeads
    THEN i + 2 <= Len(s) /\ s[i + 1] \in ContinuationBytes
                         /\ s[i + 2] \in ContinuationBytes
    ELSE IF s[i] \in ContinuationBytes
    THEN \/ i > 1 /\ s[i - 1] \in TwoByteLeads
         \/ i > 1 /\ s[i - 1] \in ThreeByteLeads
                  /\ i + 1 <= Len(s) /\ s[i + 1] \in ContinuationBytes
         \/ i > 2 /\ s[i - 2] \in ThreeByteLeads /\ s[i - 1] \in ContinuationBytes
    ELSE TRUE

ReplacementChar == <<"<EF>", "<BF>", "<BD>">>

\* replaceInvalidUTF8: every byte that belongs to no well-formed encoding
\* becomes U+FFFD, everything else is copied.
replaceInvalidUTF8(input) ==
    Flatten([i \in 1..Len(input) |->
               IF ValidAt(input, i) THEN <<input[i]>> ELSE ReplacementChar],
            1, Len(input))

\* --------------------------------------------------------- strconv / fmt
Digits == <<"0", "1", "2", "3", "4", "5", "6", "7", "8", "9">>

RECURSIVE Itoa(_)
Itoa(n) ==
    IF n < 0 THEN <<"-">> \o Itoa(0 - n)
    ELSE IF n < 10 THEN <<Digits[n + 1]>>
    ELSE Itoa(n \div 10) \o <<Digits[(n % 10) + 1]>>

HexOf(b) ==
    CASE b = "<C3>" -> <<"c", "3">>
      [] b = "<A9>" -> <<"a", "9">>
      [] b = "<EF>" -> <<"e", "f">>
      [] b = "<BF>" -> <<"b", "f">>
      [] b = "<BD>" -> <<"b", "d">>

\* strconv.Quote, the %q verb on a string: double quotes around the text, a
\* backslash before '"' and '\', \xNN for a byte that belongs to no
\* well-formed encoding; printable runes (all the others of the model) are
\* copied.
Quote(s) ==
    <<"\"">>
    \o Flatten([i \in 1..Len(s) |->
                  IF ~ValidAt(s, i) THEN <<"\\", "x">> \o HexOf(s[i])
                  ELSE IF s[i] \in {"\"", "\\"} THEN <<"\\", s[i]>>
                  ELSE <<s[i]>>],
               1, Len(s))
    \o <<"\"">>

\* The operands of a formatting call.
StrArg(s) == [kind |-> "string", s |-> s, n |-> 0]
IntArg(n) == [kind |-> "int", s |-> <<>>, n |-> n]
ErrArg(e) == [kind |-> "error", s |-> e.text, n |-> 0]

BadVerb(verb, arg) ==
    <<"%", "!", verb, "(">>
    \o (IF arg.kind = "int" THEN <<"i", "n", "t", "=">> \o Itoa(arg.n)
        ELSE <<"s", "t", "r", "i", "n", "g", "=">> \o arg.s)
    \o <<")">>

\* One verb applied to one operand.
FormatArg(verb, arg) ==
    CASE verb = "v" -> (IF arg.kind = "int" THEN Itoa(arg.n) ELSE arg.s)
      [] verb = "s" -> (IF arg.kind = "int" THEN BadVerb(verb, arg) ELSE arg.s)
      [] verb = "q" -> (IF arg.kind = "int" THEN BadVerb(verb, arg) ELSE Quote(arg.s))
      [] verb = "d" -> (IF arg.kind = "int" THEN Itoa(arg.n) ELSE BadVerb(verb, arg))
      [] OTHER -> BadVerb(verb, arg)

\* fmt.Sprintf for formats without flags, width or precision: "%%" is a
\* percent sign, a verb with no operand left prints %!verb(MISSING), a
\* trailing "%" prints %!(NOVERB).
RECURSIVE SprintfFrom(_, _, _, _)
SprintfFrom(format, i, a, argNum) ==
    IF i > Len(format) THEN <<>>
    ELSE IF format[i] # "%"
    THEN <<format[i]>> \o SprintfFrom(format, i + 1, a, argNum)
    ELSE IF i = Len(format)
    THEN <<"%", "!", "(", "N", "O", "V", "E", "R", "B", ")">>
    ELSE IF format[i + 1] = "%"
    THEN <<"%">> \o SprintfFrom(format, i + 2, a, argNum)
    ELSE IF argNum > Len(a)
    THEN <<"%", "!", format[i + 1], "(", "M", "I", "S", "S", "I", "N", "G", ")">>
         \o SprintfFrom(format, i + 2, a, argNum)
    ELSE FormatArg(format[i + 1], a[argNum])
         \o SprintfFrom(format, i + 2, a, argNum + 1)

Sprintf(format, a) == SprintfFrom(format, 1, a, 1)

\* subtle.ConstantTimeCompare: 1 when the two byte slices have the same
\* length and the same bytes, 0 otherwise.
ConstantTimeCompare(x, y) ==
    IF Len(x) # Len(y) THEN 0
    ELSE IF \A i \in 1..Len(x) : x[i] = y[i] THEN 1 ELSE 0

\* ------------------------------------------------------------------ net.IP
\* An IP address is its byte slice: 4 bytes, 16 bytes, or anything else a
\* resolver hands back (the empty slice is a nil IP).
V4InV6Prefix == <<0, 0, 0, 0, 0, 0, 0, 0, 0, 0, 255, 255>>

\* net.IP.To4: the 4-byte form of an IPv4 address, <<>> (nil) when the
\* address is none.
To4(ip) ==
    IF Len(ip) = 4 THEN ip
    ELSE IF Len(ip) = 16 /\ SubSeq(ip, 1, 12) = V4InV6Prefix THEN SubSeq(ip, 13, 16)
    ELSE <<>>

\* ---------------------------------------------------------- core / probs
IdentifierDNS == "dns"

\* core.DNSPrefix
DNSPrefix ==
    <<"_", "a", "c", "m", "e", "-", "c", "h", "a", "l", "l", "e", "n", "g",
      "e">>

NilProblem == [kind |-> "nil", detail |-> <<>>]

\* The probs constructors take a format and its operands.
Malformed(detail, a) == [kind |-> "malformed", detail |-> Sprintf(detail, a)]
DNS(detail, a) == [kind |-> "dns", detail |-> Sprintf(detail, a)]
UnknownHost(detail, a) == [kind |-> "unknownHost", detail |-> Sprintf(detail, a)]
Unauthorized(detail, a) == [kind |-> "unauthorized", detail |-> Sprintf(detail, a)]

NilErr == [isNil |-> TRUE, text |-> <<>>]
Error(text) == [isNil |-> FALSE, text |-> text]

\* ------------------------------------------------------- message formats
MalformedMsg ==
    <<"I", "d", "e", "n", "t", "i", "f", "i", "e", "r", " ", "t", "y", "p",
      "e", " ", "f", "o", "r", " ", "D", "N", "S", " ", "w", "a", "s", " ",
      "n", "o", "t", " ", "i", "t", "s", "e", "l", "f", " ", "D", "N", "S">>

UnknownHostFmt ==
    <<"N", "o", " ", "v", "a", "l", "i", "d", " ", "I", "P", " ", "a", "d",
      "d", "r", "e", "s", "s", "e", "s", " ", "f", "o", "u", "n", "d", " ",
      "f", "o", "r", " ", "%", "s">>

NoTXTFmt ==
    <<"N", "o", " ", "T", "X", "T", " ", "r", "e", "c", "o", "r", "d", " ",
      "f", "o", "u", "n", "d", " ", "a", "t", " ", "%", "s">>

IncorrectTXTFmt ==
    <<"I", "n", "c", "o", "r", "r", "e", "c", "t", " ", "T", "X", "T", " ",
      "r", "e", "c", "o", "r", "d", " ", "%", "q", "%", "s", " ", "f", "o",
      "u", "n", "d", " ", "a", "t", " ", "%", "s">>

AndMoreFmt ==
    <<" ", "(", "a", "n", "d", " ", "%", "d", " ", "m", "o", "r", "e", ")">>

SubdomainFmt == <<"%", "s", ".", "%", "s">>

Ellipsis == <<".", ".", ".">>

\* ------------------------------------------------------------ the digest
KeyAuth1 ==
    <<"t", "o", "k", "e", "n", "1", ".", "t", "h", "u", "m", "b">>

KeyAuth2 ==
    <<"t", "o", "k", "e", "n", "2", ".", "t", "h", "u", "m", "b">>

\* base64.RawURLEncoding of the SHA-256 of each key authorization of the
\* model (the values the Go code computes for these inputs).
Digest1 ==
    <<"y", "D", "_", "3", "q", "F", "8", "q", "M", "v", "P", "_", "f", "K",
      "S", "v", "I", "N", "B", "G", "m", "Y", "2", "O", "3", "5", "C", "X",
      "l", "z", "V", "3", "q", "p", "7", "m", "3", "2", "3", "d", "S", "Y",
      "8">>

Digest2 ==
    <<"N", "f", "9", "F", "U", "q", "V", "4", "1", "W", "e", "M", "A", "a",
      "8", "y", "X", "A", "O", "Z", "5", "6", "y", "o", "w", "2", "Y", "w",
      "C", "w", "w", "i", "r", "0", "O", "g", "S", "V", "g", "b", "k", "l",
      "s">>

KeyAuthorizations == {KeyAuth1, KeyAuth2}

Sha256RawURL(keyAuthorization) ==
    CASE keyAuthorization = KeyAuth1 -> Digest1
      [] keyAuthorization = KeyAuth2 -> Digest2

\* ------------------------------------------------------- inputs and replies
ExampleCom == <<"e", "x", "a", "m", "p", "l", "e", ".", "c", "o", "m">>
PercentOrg == <<"a", "%", "d", ".", "o", "r", "g">>

IdentifierTypes == {IdentifierDNS, "ip"}
Identifiers == [type : IdentifierTypes, value : {ExampleCom, PercentOrg}]
Challenges == [ProvidedKeyAuthorization : KeyAuthorizations]

Bogus == <<"a", "a", "a">>
\* Same length as a proof, differing from Digest1 in the last byte only.
NearDigest1 == SubSeq(Digest1, 1, Len(Digest1) - 1) \o <<"9">>
\* A strict prefix of a proof.
ShortDigest1 == SubSeq(Digest1, 1, Len(Digest1) - 1)

\* TXT values that may sit anywhere in a reply.
TxtPool == {Bogus, Digest1, Digest2, NearDigest1}

EAcute == <<"<C3>", "<A9>">>

\* TXT values around the truncation limit and with bytes that need repair or
\* quoting; they come first in the replies that carry them.
FirstPool ==
    { Rep(<<"a">>, TruncLimit),
      Rep(<<"a">>, TruncLimit + 1),
      Rep(<<"a">>, TruncLimit - 1) \o EAcute,
      Rep(EAcute, TruncLimit \div 2),
      Rep(EAcute, (TruncLimit \div 2) + 1),
      Rep(<<"<A9>">>, TruncLimit \div 2),
      <<"a", "<C3>">>,
      <<"a", "\"", "a">>,
      ShortDigest1 }

AuthoritiesPool == {<<"ns1">>, <<"ns1", "ns2">>}

TxtLists ==
    SeqsUpTo(TxtPool, MaxTxts)
    \cup {<<r>> \o rest : r \in FirstPool, rest \in SeqsUpTo({Bogus}, 1)}

ErrTexts ==
    { <<"t", "i", "m", "e", "o", "u", "t">>,
      <<"1", "0", "0", "%">>,
      <<"%", "d", " ", "f", "a", "i", "l">>,
      <<"a", "%", "%", "b">>,
      <<"a", "%", "s", "b">> }

\* What LookupTXT may return: values and authorities with no error, or an
\* error (with or without values beside it).
TXTReplies ==
    [txts : TxtLists, authorities : AuthoritiesPool, err : {NilErr}]
    \cup [txts : {<<>>, <<Digest1>>}, authorities : {<<>>},
          err : {Error(t) : t \in ErrTexts}]

\* The replies used when two invocations run side by side.
SmallTXTReplies ==
    [txts : {<<>>, <<Bogus, Digest1>>, <<Bogus, Digest2>>, <<Bogus, Bogus>>},
     authorities : {<<"ns1">>}, err : {NilErr}]
    \cup [txts : {<<>>}, authorities : {<<>>}, err : {Error(<<"1", "0", "0", "%">>)}]

IPv4Addr == <<192, 0, 2, 1>>
IPv4Mapped == V4InV6Prefix \o <<192, 0, 2, 2>>
IPv6Addr == <<32, 1, 13, 184, 0, 0, 0, 0, 0, 0, 0, 0, 0, 0, 0, 1>>
NilIP == <<>>
IPPool == {IPv4Addr, IPv4Mapped, IPv6Addr, NilIP}
AddrLists == SeqsUpTo(IPPool, MaxAddrs)

Hostnames == {ExampleCom, PercentOrg}

HostReplies ==
    [addrs : AddrLists, err : {NilErr}]
    \cup [addrs : {<<>>, <<IPv4Addr>>}, err : {Error(t) : t \in ErrTexts}]

\* ------------------------------------------------------------------- state
Procs == {1, 2}

VARIABLES
    frame,       \* frame[p]: the locals and results of invocation p of validateDNS01
    dnsClient,   \* what the DNS client was asked: calls and names, per caller
    gframe,      \* the locals and results of the getAddrs invocation
    cframe       \* the locals and results of the availableAddresses invocation

vars == <<frame, dnsClient, gframe, cframe>>

IdleFrame ==
    [pc |-> "idle",
     identifier |-> [type |-> "", value |-> <<>>],
     challenge |-> [ProvidedKeyAuthorization |-> <<>>],
     authorizedKeysDigest |-> <<>>,
     challengeSubdomain |-> <<>>,
     txts |-> <<>>, authorities |-> <<>>, err |-> NilErr,
     idx |-> 0,
     records |-> <<>>, problem |-> NilProblem,
     stages |-> <<>>]

IdleSpy == [lookupTXTCalls |-> 0, lookupTXTName |-> <<>>, lookupHostCalls |-> 0]

IdleGFrame ==
    [pc |-> "idle", hostname |-> <<>>, addrs |-> <<>>, err |-> NilErr,
     retAddrs |-> <<>>, problem |-> NilProblem]

IdleCFrame ==
    [pc |-> "idle", allAddrs |-> <<>>, input |-> <<>>, i |-> 0,
     v4 |-> <<>>, v6 |-> <<>>]

\* Callers of the DNS client: the validateDNS01 invocations, and getAddrs as 0.
Callers == Procs \cup {0}

Init ==
    /\ frame = [p \in Procs |-> IdleFrame]
    /\ dnsClient = [c \in Callers |-> IdleSpy]
    /\ gframe = IdleGFrame
    /\ cframe = IdleCFrame

\* The stages in which an invocation of validateDNS01 has returned.
Terminal == {"Malformed", "Error", "Success", "Unauthorized"}

Enter(f, stage) == [f EXCEPT !.pc = stage, !.stages = Append(@, stage)]

\* ------------------------------------------------------------ validateDNS01
\* A caller invokes validateDNS01(ctx, identifier, challenge).
Call(p) ==
    /\ frame[p].pc = "idle"
    /\ \E id \in Identifiers, ch \in Challenges :
         frame' = [frame EXCEPT ![p] =
                     Enter([IdleFrame EXCEPT !.identifier = id, !.challenge = ch],
                           "Start")]
    /\ dnsClient' = [dnsClient EXCEPT ![p] = IdleSpy]
    /\ UNCHANGED <<gframe, cframe>>

\* Mutant: the identifier type is never looked at.
TypeCheck_skipped(p) ==
    /\ frame[p].pc = "Start"
    /\ frame' = [frame EXCEPT ![p] = Enter(@, "TypeCheck")]
    /\ UNCHANGED <<dnsClient, gframe, cframe>>

\* if identifier.Type != core.IdentifierDNS { return nil, probs.Malformed(...) }
TypeCheck(p) ==
    /\ frame[p].pc = "Start"
    /\ frame' = [frame EXCEPT ![p] =
         IF frame[p].identifier.type # IdentifierDNS
         THEN Enter([@ EXCEPT !.records = <<>>,
                              !.problem = Malformed(MalformedMsg, <<>>)],
                    "Malformed")
         ELSE Enter(@, "TypeCheck")]
    /\ UNCHANGED <<dnsClient, gframe, cframe>>

\* h := sha256.New(); h.Write(...); base64.RawURLEncoding.EncodeToString(h.Sum(nil))
ComputeDigest(p) ==
    /\ frame[p].pc = "TypeCheck"
    /\ frame' = [frame EXCEPT ![p] =
         Enter([@ EXCEPT !.authorizedKeysDigest =
                           Sha256RawURL(frame[p].challenge.ProvidedKeyAuthorization)],
               "DigestComputed")]
    /\ UNCHANGED <<dnsClient, gframe, cframe>>

\* challengeSubdomain := fmt.Sprintf("%s.%s", core.DNSPrefix, identifier.Value)
\* and the call va.dnsClient.LookupTXT(ctx, challengeSubdomain) goes out.
LookupTXT(p) ==
    /\ frame[p].pc = "DigestComputed"
    /\ LET sub == Sprintf(SubdomainFmt,
                          <<StrArg(DNSPrefix), StrArg(frame[p].identifier.value)>>)
       IN /\ frame' = [frame EXCEPT ![p] =
                         Enter([@ EXCEPT !.challengeSubdomain = sub], "Lookup")]
          /\ dnsClient' = [dnsClient EXCEPT
                             ![p].lookupTXTCalls = @ + 1,
                             ![p].lookupTXTName = sub]
    /\ UNCHANGED <<gframe, cframe>>

\* The stage the reply leads to: err != nil, len(txts) == 0, or the loop.
AfterLookup(reply) ==
    IF ~reply.err.isNil THEN "Error"
    ELSE IF Len(reply.txts) = 0 THEN "Empty"
    ELSE "Compare"

\* Mutant: a failed lookup is tried again.
LookupTXTReturn_retry(p, replies) ==
    /\ frame[p].pc = "Lookup"
    /\ \E reply \in replies :
         frame' = [frame EXCEPT ![p] =
           IF AfterLookup(reply) = "Error"
           THEN Enter(@, "DigestComputed")
           ELSE Enter([@ EXCEPT !.txts = reply.txts,
                                !.authorities = reply.authorities,
                                !.err = reply.err,
                                !.idx = 1],
                      AfterLookup(reply))]
    /\ UNCHANGED <<dnsClient, gframe, cframe>>

\* txts, authorities, err := ... returns; on an error
\* return nil, probs.DNS(err.Error()).
LookupTXTReturn(p, replies) ==
    /\ frame[p].pc = "Lookup"
    /\ \E reply \in replies :
         frame' = [frame EXCEPT ![p] =
           Enter([@ EXCEPT !.txts = reply.txts,
                           !.authorities = reply.authorities,
                           !.err = reply.err,
                           !.idx = 1,
                           !.problem = IF AfterLookup(reply) = "Error"
                                       THEN DNS(reply.err.text, <<>>)
                                       ELSE NilProblem],
                 AfterLookup(reply))]
    /\ UNCHANGED <<dnsClient, gframe, cframe>>

\* Mutant: the message names the identifier, not the subdomain queried.
NoTXT_bareIdentifier(p) ==
    /\ frame[p].pc = "Empty"
    /\ frame' = [frame EXCEPT ![p] =
         Enter([@ EXCEPT !.records = <<>>,
                         !.problem = Unauthorized(NoTXTFmt,
                                                  <<StrArg(frame[p].identifier.value)>>)],
               "Unauthorized")]
    /\ UNCHANGED <<dnsClient, gframe, cframe>>

\* if len(txts) == 0 { return nil, probs.Unauthorized("No TXT record found at %s", ...) }
NoTXT(p) ==
    /\ frame[p].pc = "Empty"
    /\ frame' = [frame EXCEPT ![p] =
         Enter([@ EXCEPT !.records = <<>>,
                         !.problem = Unauthorized(NoTXTFmt,
                                                  <<StrArg(frame[p].challengeSubdomain)>>)],
               "Unauthorized")]
    /\ UNCHANGED <<dnsClient, gframe, cframe>>

\* Mutant: only the first TXT value is compared.
CompareStep_firstOnly(p) ==
    /\ frame[p].pc = "Compare"
    /\ frame[p].idx <= Len(frame[p].txts)
    /\ frame' = [frame EXCEPT ![p] =
         IF ConstantTimeCompare(frame[p].txts[1],
                                frame[p].authorizedKeysDigest) = 1
         THEN Enter([@ EXCEPT !.records = <<[Authorities |-> frame[p].authorities,
                                             Hostname |-> frame[p].identifier.value]>>,
                              !.problem = NilProblem],
                    "Success")
         ELSE [@ EXCEPT !.idx = Len(frame[p].txts) + 1]]
    /\ UNCHANGED <<dnsClient, gframe, cframe>>

\* One iteration of for _, element := range txts: a match returns the
\* validation record, anything else moves to the next element.
CompareStep(p) ==
    /\ frame[p].pc = "Compare"
    /\ frame[p].idx <= Len(frame[p].txts)
    /\ frame' = [frame EXCEPT ![p] =
         IF ConstantTimeCompare(frame[p].txts[frame[p].idx],
                                frame[p].authorizedKeysDigest) = 1
         THEN Enter([@ EXCEPT !.records = <<[Authorities |-> frame[p].authorities,
                                             Hostname |-> frame[p].identifier.value]>>,
                              !.problem = NilProblem],
                    "Success")
         ELSE [@ EXCEPT !.idx = @ + 1]]
    /\ UNCHANGED <<dnsClient, gframe, cframe>>

\* Mutant: a record of exactly the limit is truncated too.
TruncateRecord_offByOne(record) ==
    IF Len(record) >= TruncLimit
    THEN SubSeq(record, 1, TruncLimit) \o Ellipsis
    ELSE record

\* invalidRecord := txts[0]; if len(invalidRecord) > 100 { ...[0:100] + "..." }
TruncateRecord(record) ==
    IF Len(record) > TruncLimit
    THEN SubSeq(record, 1, TruncLimit) \o Ellipsis
    ELSE record

\* Mutant: the count is the number of records, not the number of others.
AndMore_total(list) ==
    IF Len(list) > 1 THEN Sprintf(AndMoreFmt, <<IntArg(Len(list))>>) ELSE <<>>

\* if len(txts) > 1 { andMore = fmt.Sprintf(" (and %d more)", len(txts)-1) }
AndMore(list) ==
    IF Len(list) > 1 THEN Sprintf(AndMoreFmt, <<IntArg(Len(list) - 1)>>) ELSE <<>>

\* Mutant: the record goes into the message without the UTF-8 repair.
IncorrectTXT_noRepair(list, subdomain) ==
    Unauthorized(IncorrectTXTFmt,
                 <<StrArg(IF Len(list[1]) > TruncLimit
                          THEN SubSeq(list[1], 1, TruncLimit) \o Ellipsis
                          ELSE list[1]),
                   StrArg(IF Len(list) > 1
                          THEN Sprintf(AndMoreFmt, <<IntArg(Len(list) - 1)>>)
                          ELSE <<>>),
                   StrArg(subdomain)>>)

\* probs.Unauthorized("Incorrect TXT record %q%s found at %s",
\*     replaceInvalidUTF8([]byte(invalidRecord)), andMore, challengeSubdomain)
IncorrectTXT(list, subdomain) ==
    Unauthorized(IncorrectTXTFmt,
                 <<StrArg(replaceInvalidUTF8(TruncateRecord(list[1]))),
                   StrArg(AndMore(list)),
                   StrArg(subdomain)>>)

\* The loop ended without a match.
NoMatch(p) ==
    /\ frame[p].pc = "Compare"
    /\ frame[p].idx > Len(frame[p].txts)
    /\ frame' = [frame EXCEPT ![p] =
         Enter([@ EXCEPT !.records = <<>>,
                         !.problem = IncorrectTXT(frame[p].txts,
                                                 frame[p].challengeSubdomain)],
               "Unauthorized")]
    /\ UNCHANGED <<dnsClient, gframe, cframe>>

\* The invocation's frame is gone once the caller has its result.
Return(p) ==
    /\ frame[p].pc \in Terminal
    /\ frame' = [frame EXCEPT ![p] = IdleFrame]
    /\ dnsClient' = [dnsClient EXCEPT ![p] = IdleSpy]
    /\ UNCHANGED <<gframe, cframe>>

\* ----------------------------------------------------------------- getAddrs
\* A caller invokes getAddrs(ctx, hostname): va.dnsClient.LookupHost goes out.
GetAddrsCall ==
    /\ gframe.pc = "idle"
    /\ \E h \in Hostnames :
         gframe' = [IdleGFrame EXCEPT !.pc = "LookupHost", !.hostname = h]
    /\ dnsClient' = [dnsClient EXCEPT
                       ![0] = [IdleSpy EXCEPT !.lookupHostCalls = 1]]
    /\ UNCHANGED <<frame, cframe>>

\* Mutant: the error text is handed to probs.DNS as the format.
GetAddrsResult_rawFormat(hostname, reply) ==
    IF ~reply.err.isNil
    THEN [retAddrs |-> <<>>, problem |-> DNS(reply.err.text, <<>>)]
    ELSE IF Len(reply.addrs) = 0
    THEN [retAddrs |-> <<>>,
          problem |-> UnknownHost(UnknownHostFmt, <<StrArg(hostname)>>)]
    ELSE [retAddrs |-> reply.addrs, problem |-> NilProblem]

\* What getAddrs returns for a reply of LookupHost.
GetAddrsResult(hostname, reply) ==
    IF ~reply.err.isNil
    THEN [retAddrs |-> <<>>, problem |-> DNS(<<"%", "v">>, <<ErrArg(reply.err)>>)]
    ELSE IF Len(reply.addrs) = 0
    THEN [retAddrs |-> <<>>,
          problem |-> UnknownHost(UnknownHostFmt, <<StrArg(hostname)>>)]
    ELSE [retAddrs |-> reply.addrs, problem |-> NilProblem]

\* addrs, err := ... returns and getAddrs returns.
GetAddrsReturn ==
    /\ gframe.pc = "LookupHost"
    /\ \E reply \in HostReplies :
         gframe' = [gframe EXCEPT
                      !.pc = "done",
                      !.addrs = reply.addrs,
                      !.err = reply.err,
                      !.retAddrs = GetAddrsResult(gframe.hostname, reply).retAddrs,
                      !.problem = GetAddrsResult(gframe.hostname, reply).problem]
    /\ UNCHANGED <<frame, dnsClient, cframe>>

GetAddrsDone ==
    /\ gframe.pc = "done"
    /\ gframe' = IdleGFrame
    /\ dnsClient' = [dnsClient EXCEPT ![0] = IdleSpy]
    /\ UNCHANGED <<frame, cframe>>

\* ------------------------------------------------------- availableAddresses
\* A caller invokes availableAddresses(allAddrs); input keeps what was passed.
ClassifyCall ==
    /\ cframe.pc = "idle"
    /\ \E l \in AddrLists :
         cframe' = [IdleCFrame EXCEPT
                      !.pc = "loop", !.allAddrs = l, !.input = l, !.i = 1]
    /\ UNCHANGED <<frame, dnsClient, gframe>>

\* Mutant: v6 is assigned, not appended to.
ClassifyStep_overwriteV6 ==
    /\ cframe.pc = "loop"
    /\ cframe.i <= Len(cframe.allAddrs)
    /\ LET addr == cframe.allAddrs[cframe.i]
       IN cframe' = IF To4(addr) # <<>>
                    THEN [cframe EXCEPT !.v4 = Append(@, addr), !.i = @ + 1]
                    ELSE [cframe EXCEPT !.v6 = <<addr>>, !.i = @ + 1]
    /\ UNCHANGED <<frame, dnsClient, gframe>>

\* One iteration of for _, addr := range allAddrs.
ClassifyStep ==
    /\ cframe.pc = "loop"
    /\ cframe.i <= Len(cframe.allAddrs)
    /\ LET addr == cframe.allAddrs[cframe.i]
       IN cframe' = IF To4(addr) # <<>>
                    THEN [cframe EXCEPT !.v4 = Append(@, addr), !.i = @ + 1]
                    ELSE [cframe EXCEPT !.v6 = Append(@, addr), !.i = @ + 1]
    /\ UNCHANGED <<frame, dnsClient, gframe>>

\* The loop is over: return.
ClassifyReturn ==
    /\ cframe.pc = "loop"
    /\ cframe.i > Len(cframe.allAddrs)
    /\ cframe' = [cframe EXCEPT !.pc = "done"]
    /\ UNCHANGED <<frame, dnsClient, gframe>>

ClassifyDone ==
    /\ cframe.pc = "done"
    /\ cframe' = IdleCFrame
    /\ UNCHANGED <<frame, dnsClient, gframe>>

\* ----------------------------------------------------------- specifications
AllIdle ==
    /\ \A p \in Procs : frame[p].pc = "idle"
    /\ gframe.pc = "idle"
    /\ cframe.pc = "idle"

\* One call at a time, over every input and every reply of the model.
Next ==
    \/ AllIdle /\ Call(1)
    \/ TypeCheck(1)
    \/ ComputeDigest(1)
    \/ LookupTXT(1)
    \/ LookupTXTReturn(1, TXTReplies)
    \/ NoTXT(1)
    \/ CompareStep(1)
    \/ NoMatch(1)
    \/ Return(1)
    \/ AllIdle /\ GetAddrsCall
    \/ GetAddrsReturn
    \/ GetAddrsDone
    \/ AllIdle /\ ClassifyCall
    \/ ClassifyStep
    \/ ClassifyReturn
    \/ ClassifyDone

Spec == Init /\ [][Next]_vars

\* Two invocations of validateDNS01 side by side, interleaved at every step,
\* each invoked again after it returned.
NextConc ==
    \E p \in Procs :
        \/ Call(p)
        \/ TypeCheck(p)
        \/ ComputeDigest(p)
        \/ LookupTXT(p)
        \/ LookupTXTReturn(p, SmallTXTReplies)
        \/ NoTXT(p)
        \/ CompareStep(p)
        \/ NoMatch(p)
        \/ Return(p)

SpecConc == Init /\ [][NextConc]_vars

\* ------------------------------------------------------------------ claims
\* The texts the claims speak of, written out.
NoTXTText ==
    <<"N", "o", " ", "T", "X", "T", " ", "r", "e", "c", "o", "r", "d", " ",
      "f", "o", "u", "n", "d", " ", "a", "t", " ">>

AcmeChallengeDot ==
    <<"_", "a", "c", "m", "e", "-", "c", "h", "a", "l", "l", "e", "n", "g",
      "e", ".">>

IncorrectText ==
    <<"I", "n", "c", "o", "r", "r", "e", "c", "t", " ", "T", "X", "T", " ",
      "r", "e", "c", "o", "r", "d", " ">>

FoundAtText ==
    <<" ", "f", "o", "u", "n", "d", " ", "a", "t", " ">>

Returned(p) == frame[p].pc \in Terminal

\* The proof the claims expect for the invocation's challenge.
ExpectedProof(p) == Sha256RawURL(frame[p].challenge.ProvidedKeyAuthorization)

\* The invocation returned through the no-match path.
NoMatchCase(p) == frame[p].pc = "Unauthorized" /\ Len(frame[p].txts) >= 1

\* The position i starts a character: a well-formed encoding, or a byte that
\* belongs to none.
RuneStart(s, i) == ~ValidAt(s, i) \/ s[i] \notin ContinuationBytes

RuneCount(s) == Cardinality({i \in 1..Len(s) : RuneStart(s, i)})

\* The first k characters of s.
TakeRunes(s, k) ==
    IF RuneCount(s) <= k THEN s
    ELSE LET p == CHOOSE i \in 1..Len(s) :
                    /\ RuneStart(s, i)
                    /\ Cardinality({j \in 1..(i - 1) : RuneStart(s, j)}) = k
         IN SubSeq(s, 1, p - 1)

\* A text as the detail shows it, without the quotes around it.
Shown(t) ==
    SubSeq(Quote(replaceInvalidUTF8(t)), 2, Len(Quote(replaceInvalidUTF8(t))) - 1)

WellFormed(s) == \A i \in 1..Len(s) : ValidAt(s, i)

CountSuffix(n) == <<" ", "(", "a", "n", "d", " ">> \o Itoa(n - 1) \o <<" ", "m", "o", "r", "e", ")">>

\* C1: validateDNS01 succeeds exactly when LookupTXT was called, returned no
\* error and some returned TXT value (at any position) equals the expected
\* proof; on success it returns exactly one ValidationRecord with the
\* identifier's value as hostname and the authorities of that reply, and a
\* nil problem; otherwise no record.
C1_SuccessIffProofPresent ==
    \A p \in Procs : Returned(p) =>
        /\ (frame[p].problem = NilProblem) <=>
              /\ dnsClient[p].lookupTXTCalls = 1
              /\ frame[p].err.isNil
              /\ \E i \in 1..Len(frame[p].txts) : frame[p].txts[i] = ExpectedProof(p)
        /\ frame[p].problem = NilProblem =>
              frame[p].records = <<[Authorities |-> frame[p].authorities,
                                    Hostname |-> frame[p].identifier.value]>>
        /\ frame[p].problem # NilProblem => frame[p].records = <<>>

\* C1 witness: success on ["aaa", proof] for example.com with authorities
\* ["ns1"]: the match is not the first value.
C1_Witness ==
    \E p \in Procs :
        /\ frame[p].pc = "Success"
        /\ frame[p].txts = <<Bogus, ExpectedProof(p)>>
        /\ frame[p].identifier.value = ExampleCom
        /\ frame[p].authorities = <<"ns1">>

\* C2: an invocation whose identifier type is not DNS asks the DNS client
\* nothing (no LookupTXT, no LookupHost) and returns Malformed with no
\* validation record, whatever the challenge.
C2_NonDNSIsMalformedWithoutQuery ==
    \A p \in Procs :
        (frame[p].pc # "idle" /\ frame[p].identifier.type # IdentifierDNS) =>
            /\ dnsClient[p].lookupTXTCalls = 0
            /\ dnsClient[p].lookupHostCalls = 0
            /\ frame[p].pc \in {"Start", "Malformed"}
            /\ frame[p].pc = "Malformed" =>
                  /\ frame[p].problem.kind = "malformed"
                  /\ frame[p].records = <<>>

\* C2 witness: an invocation for a non-DNS identifier has returned.
C2_Witness ==
    \E p \in Procs :
        /\ frame[p].pc = "Malformed"
        /\ frame[p].identifier.type = "ip"
        /\ frame[p].challenge.ProvidedKeyAuthorization = KeyAuth2

\* C3: when LookupTXT returned an error, the result is a DNS problem with no
\* validation record whose detail contains the error text unchanged, for
\* every error text.
C3_DNSProblemCarriesErrorText ==
    \A p \in Procs : (Returned(p) /\ ~frame[p].err.isNil) =>
        /\ frame[p].problem.kind = "dns"
        /\ frame[p].records = <<>>
        /\ Contains(frame[p].problem.detail, frame[p].err.text)

\* C4: no error and zero TXT values for a DNS identifier give Unauthorized
\* with no validation record and the detail "No TXT record found at
\* _acme-challenge.<identifier.value>", which names the very name LookupTXT
\* was asked for.
C4_NoTXTDetailNamesQueriedSubdomain ==
    \A p \in Procs :
        (/\ Returned(p)
         /\ frame[p].identifier.type = IdentifierDNS
         /\ frame[p].err.isNil
         /\ Len(frame[p].txts) = 0) =>
            /\ frame[p].problem.kind = "unauthorized"
            /\ frame[p].records = <<>>
            /\ frame[p].problem.detail =
                 NoTXTText \o AcmeChallengeDot \o frame[p].identifier.value
            /\ frame[p].problem.detail = NoTXTText \o dnsClient[p].lookupTXTName

\* C4 witness: the empty reply for an identifier whose value has a '%' in it.
C4_Witness ==
    \E p \in Procs :
        /\ frame[p].pc = "Unauthorized"
        /\ frame[p].err.isNil
        /\ Len(frame[p].txts) = 0
        /\ frame[p].identifier.value = PercentOrg

\* C5 as stated: with n >= 2 values and no match the detail starts with the
\* first record (or its truncation) and ends with "(and n-1 more)"; with one
\* value there is no "(and N more)".
C5_DetailStartsWithRecordEndsWithCount ==
    \A p \in Procs : NoMatchCase(p) =>
        LET n == Len(frame[p].txts)
            first == frame[p].txts[1]
            detail == frame[p].problem.detail
        IN /\ frame[p].problem.kind = "unauthorized"
           /\ n >= 2 =>
                /\ \/ StartsWith(detail, Shown(TruncateRecord(first)))
                   \/ StartsWith(detail, <<"\"">> \o Shown(TruncateRecord(first)))
                /\ EndsWith(detail, SubSeq(CountSuffix(n), 2, Len(CountSuffix(n))))
           /\ n = 1 => ~Contains(detail, <<"(", "a", "n", "d", " ">>)

\* C5 (amended): with no match the detail is "Incorrect TXT record ", then the
\* quoted first record (or its truncation), then, for n >= 2 values,
\* " (and n-1 more)", then " found at " and the subdomain queried; with one
\* value " found at " follows the closing quote at once. The record quoted is
\* the first returned and the count is the number of values minus one.
C5_DetailQuotesFirstRecordThenCount ==
    \A p \in Procs : NoMatchCase(p) =>
        LET n == Len(frame[p].txts)
            first == frame[p].txts[1]
            detail == frame[p].problem.detail
            tail == <<"\"">> \o (IF n >= 2 THEN CountSuffix(n) ELSE <<>>)
                    \o FoundAtText \o dnsClient[p].lookupTXTName
        IN /\ frame[p].problem.kind = "unauthorized"
           /\ frame[p].records = <<>>
           /\ StartsWith(detail,
                 IncorrectText \o <<"\"">>
                 \o Shown(SubSeq(first, 1, IF Len(first) > TruncLimit
                                           THEN TruncLimit ELSE Len(first))))
           /\ EndsWith(detail, tail)

\* C5 witness: three values, none matching, the first unlike the others.
C5_Witness ==
    \E p \in Procs :
        /\ NoMatchCase(p)
        /\ Len(frame[p].txts) = 3
        /\ frame[p].txts[1] = Bogus
        /\ frame[p].txts[2] # Bogus

\* C6 as stated: the limit counts characters: a first record of more than 100
\* characters shows its first 100 characters and then "...", one of 100
\* characters or fewer shows in full with no "...".
C6_TruncationCountsCharacters ==
    \A p \in Procs : NoMatchCase(p) =>
        LET first == frame[p].txts[1]
            detail == frame[p].problem.detail
        IN IF RuneCount(first) > TruncLimit
           THEN Contains(detail, Shown(TakeRunes(first, TruncLimit)) \o Ellipsis)
           ELSE Contains(detail, Shown(first)) /\ ~Contains(detail, Ellipsis)

\* C6 (amended): the limit counts bytes: a first record of more than 100
\* bytes shows (repaired, between the quotes) exactly its first 100 bytes
\* and then "...", one of 100 bytes or fewer shows in full with the closing
\* quote right behind it.
C6_TruncationCountsBytes ==
    \A p \in Procs : NoMatchCase(p) =>
        LET first == frame[p].txts[1]
            detail == frame[p].problem.detail
        IN IF Len(first) > TruncLimit
           THEN StartsWith(detail,
                    IncorrectText \o <<"\"">> \o Shown(SubSeq(first, 1, TruncLimit))
                    \o Ellipsis \o <<"\"", " ">>)
           ELSE StartsWith(detail,
                    IncorrectText \o <<"\"">> \o Shown(first) \o <<"\"", " ">>)

\* C6 witness: a first record of more than 100 bytes and at most 100
\* characters went through the no-match path.
C6_Witness ==
    \E p \in Procs :
        /\ NoMatchCase(p)
        /\ Len(frame[p].txts[1]) > TruncLimit
        /\ RuneCount(frame[p].txts[1]) <= TruncLimit

\* The truncation of a text to 100 characters.
TruncateChars(t) ==
    IF RuneCount(t) > TruncLimit THEN TakeRunes(t, TruncLimit) \o Ellipsis ELSE t

\* The "(and N more)" part of a detail for n values.
CountPart(n) == IF n >= 2 THEN CountSuffix(n) ELSE <<>>

\* C9 as stated: the record is repaired first and truncated second: the text
\* in the detail is truncate100(sanitize(record)).
C9_SanitizeThenTruncate ==
    \A p \in Procs : NoMatchCase(p) =>
        frame[p].problem.detail =
            IncorrectText
            \o Quote(TruncateChars(replaceInvalidUTF8(frame[p].txts[1])))
            \o CountPart(Len(frame[p].txts))
            \o FoundAtText \o frame[p].challengeSubdomain

\* C9 (amended): the record is truncated to 100 bytes first and repaired
\* second: the text in the detail is sanitize(truncate100bytes(record)),
\* quoted; the cut may fall inside a multi-byte sequence, and the repair that
\* follows leaves the text shown well-formed all the same.
C9_TruncateThenSanitize ==
    \A p \in Procs : NoMatchCase(p) =>
        LET first == frame[p].txts[1]
            cut == IF Len(first) > TruncLimit
                   THEN SubSeq(first, 1, TruncLimit) \o Ellipsis
                   ELSE first
        IN /\ frame[p].problem.detail =
                IncorrectText \o Quote(replaceInvalidUTF8(cut))
                \o CountPart(Len(frame[p].txts))
                \o FoundAtText \o frame[p].challengeSubdomain
           /\ WellFormed(SubSeq(frame[p].problem.detail, Len(IncorrectText) + 1,
                                Len(frame[p].problem.detail)
                                - Len(CountPart(Len(frame[p].txts)))
                                - Len(FoundAtText)
                                - Len(frame[p].challengeSubdomain)))

\* C9 witness: the cut at 100 bytes fell inside a two-byte sequence of a
\* well-formed record.
C9_Witness ==
    \E p \in Procs :
        /\ NoMatchCase(p)
        /\ Len(frame[p].txts[1]) > TruncLimit
        /\ WellFormed(frame[p].txts[1])
        /\ ~WellFormed(SubSeq(frame[p].txts[1], 1, TruncLimit))

\* C7: getAddrs makes one LookupHost call and maps its outcome totally: an
\* error gives a DNS problem whose detail is the error text and no address;
\* no error and no address gives UnknownHost naming the hostname; no error
\* and addresses gives exactly the list received and a nil problem.
C7_GetAddrsMapsLookupOutcome ==
    /\ gframe.pc # "idle" => dnsClient[0].lookupHostCalls = 1
    /\ gframe.pc # "idle" => dnsClient[0].lookupTXTCalls = 0
    /\ gframe.pc = "done" =>
         IF ~gframe.err.isNil
         THEN /\ gframe.problem = [kind |-> "dns", detail |-> gframe.err.text]
              /\ gframe.retAddrs = <<>>
         ELSE IF Len(gframe.addrs) = 0
         THEN /\ gframe.problem.kind = "unknownHost"
              /\ EndsWith(gframe.problem.detail, gframe.hostname)
              /\ gframe.retAddrs = <<>>
         ELSE /\ gframe.problem = NilProblem
              /\ gframe.retAddrs = gframe.addrs

\* C7 witness: getAddrs returned after a lookup error whose text has a
\* formatting directive in it.
C7_Witness ==
    /\ gframe.pc = "done"
    /\ ~gframe.err.isNil
    /\ Contains(gframe.err.text, <<"%", "d">>)
    /\ gframe.problem.kind = "dns"

\* An address that parses as an IPv4 address: four bytes, or sixteen with
\* the IPv4-in-IPv6 prefix.
IsIPv4(ip) ==
    \/ Len(ip) = 4
    \/ /\ Len(ip) = 16
       /\ \A i \in 1..10 : ip[i] = 0
       /\ ip[11] = 255
       /\ ip[12] = 255

NotIPv4(ip) == ~IsIPv4(ip)

\* C8: availableAddresses partitions its input: v4 is the subsequence of the
\* IPv4 addresses and v6 the subsequence of all the others, each in input
\* order, so that every element lands in exactly one output; the input is
\* left as it was.
C8_ClassifyPartitions ==
    /\ cframe.allAddrs = cframe.input
    /\ cframe.pc = "done" =>
         /\ cframe.v4 = SelectSeq(cframe.input, IsIPv4)
         /\ cframe.v6 = SelectSeq(cframe.input, NotIPv4)
         /\ Len(cframe.v4) + Len(cframe.v6) = Len(cframe.input)

\* C8 witness: a list with a non-IPv4 address first, then two IPv4 addresses
\* among which an IPv4-mapped one, and one more non-IPv4 address or none.
C8_Witness ==
    /\ cframe.pc = "done"
    /\ Len(cframe.input) = MaxAddrs
    /\ NotIPv4(cframe.input[1])
    /\ Len(cframe.v4) >= 1
    /\ Len(cframe.v6) >= 2
    /\ \E i \in 1..Len(cframe.v4) : Len(cframe.v4[i]) = 16

\* The stage sequences of a complete invocation.
Paths ==
    { <<"Start", "Malformed">>,
      <<"Start", "TypeCheck", "DigestComputed", "Lookup", "Error">>,
      <<"Start", "TypeCheck", "DigestComputed", "Lookup", "Empty", "Unauthorized">>,
      <<"Start", "TypeCheck", "DigestComputed", "Lookup", "Compare", "Success">>,
      <<"Start", "TypeCheck", "DigestComputed", "Lookup", "Compare", "Unauthorized">> }

IsPrefix(s, t) == Len(s) <= Len(t) /\ SubSeq(t, 1, Len(s)) = s

\* What an invocation returns, as a function of its inputs and its reply.
Outcome(identifier, challenge, reply) ==
    LET sub == AcmeChallengeDot \o identifier.value
    IN IF identifier.type # IdentifierDNS
       THEN [records |-> <<>>, problem |-> Malformed(MalformedMsg, <<>>)]
       ELSE IF ~reply.err.isNil
       THEN [records |-> <<>>, problem |-> DNS(reply.err.text, <<>>)]
       ELSE IF Len(reply.txts) = 0
       THEN [records |-> <<>>, problem |-> Unauthorized(NoTXTFmt, <<StrArg(sub)>>)]
       ELSE IF \E i \in 1..Len(reply.txts) :
                  reply.txts[i] = Sha256RawURL(challenge.ProvidedKeyAuthorization)
       THEN [records |-> <<[Authorities |-> reply.authorities,
                            Hostname |-> identifier.value]>>,
             problem |-> NilProblem]
       ELSE [records |-> <<>>, problem |-> IncorrectTXT(reply.txts, sub)]

\* C10: every invocation, alone or beside another, is one linear pass: its
\* stages are a prefix of one path and none is visited twice; it calls
\* LookupTXT at most once, and once when it returned for a DNS identifier; a
\* stage that is not terminal and does not wait for the lookup has a next
\* step; when it returned, exactly one of validation records and problem is
\* non-nil, and both are a function of its own inputs and its own reply.
C10_SingleLinearPass ==
    \A p \in Procs :
        /\ \E path \in Paths : IsPrefix(frame[p].stages, path)
        /\ frame[p].pc # "idle" => frame[p].pc = frame[p].stages[Len(frame[p].stages)]
        /\ dnsClient[p].lookupTXTCalls <= 1
        /\ dnsClient[p].lookupTXTCalls = 1 <=>
              \E i \in 1..Len(frame[p].stages) : frame[p].stages[i] = "Lookup"
        /\ (Returned(p) /\ frame[p].identifier.type = IdentifierDNS) =>
              dnsClient[p].lookupTXTCalls = 1
        /\ frame[p].idx <= Len(frame[p].txts) + 1
        /\ frame[p].pc \notin Terminal \cup {"idle", "Lookup"} =>
              ENABLED (\/ TypeCheck(p) \/ ComputeDigest(p) \/ LookupTXT(p)
                       \/ NoTXT(p) \/ CompareStep(p) \/ NoMatch(p))
        /\ Returned(p) =>
              /\ (frame[p].records = <<>>) # (frame[p].problem = NilProblem)
              /\ [records |-> frame[p].records, problem |-> frame[p].problem] =
                    Outcome(frame[p].identifier, frame[p].challenge,
                            [txts |-> frame[p].txts,
                             authorities |-> frame[p].authorities,
                             err |-> frame[p].err])

\* C10 witness: two invocations for the same identifier got the same reply at
\* the same time; one succeeded and the other, with another challenge, did
\* not.
C10_Witness ==
    \E p, q \in Procs :
        /\ frame[p].pc = "Success"
        /\ frame[q].pc = "Unauthorized"
        /\ frame[p].identifier = frame[q].identifier
        /\ frame[p].txts = frame[q].txts
        /\ frame[p].challenge # frame[q].challenge

====
